---- MODULE Spec2Model ----
(***************************************************************************)
(* The turn resolver of the homeostasis card game                          *)
(* (src/src/features/gameplay/GameEngine.ts) and the session data it works *)
(* on.                                                                     *)
(*                                                                         *)
(* Numbers.  Every biomarker value, range bound and effect value is a      *)
(* JavaScript number, i.e. an IEEE-754 binary64.  The model keeps them     *)
(* exact: a number x is the tuple <<sgn, hi, mid, lo>> with                *)
(*     |x| * 2^57 = hi * 2^46 + mid * 2^23 + lo,   sgn \in {1, -1},        *)
(* and FAdd rounds to 53 significant bits, ties to even, as the `+` of the *)
(* source does.  The representation covers zero and every binary64 of      *)
(* magnitude in [2^-5, 2^16) and all sums and differences of such numbers  *)
(* (all the values the bounded runs below produce).  Zero is kept unsigned.*)
(* Dates (lastUpdate, timestamp) and display texts are left out.           *)
(***************************************************************************)
EXTENDS Integers, Sequences, FiniteSets, TLC

Limb == 2^23

Zero == <<1, 0, 0, 0>>

Mag(x) == <<x[2], x[3], x[4]>>

\* Number of significant bits of a natural n < 2^30 (0 for n = 0).
BitLen(n) == IF n = 0 THEN 0 ELSE CHOOSE b \in 1..30 : 2^(b-1) <= n /\ n < 2^b

MagBits(m) ==
  IF m[1] > 0 THEN 46 + BitLen(m[1])
  ELSE IF m[2] > 0 THEN 23 + BitLen(m[2])
  ELSE BitLen(m[3])

MagLess(a, b) ==
  \/ a[1] < b[1]
  \/ a[1] = b[1] /\ a[2] < b[2]
  \/ a[1] = b[1] /\ a[2] = b[2] /\ a[3] < b[3]

MagAdd(a, b) ==
  LET lo == a[3] + b[3]
      mid == a[2] + b[2] + (lo \div Limb)
  IN  <<a[1] + b[1] + (mid \div Limb), mid % Limb, lo % Limb>>

\* a - b for magnitudes with b <= a.
MagSub(a, b) ==
  LET lo == a[3] - b[3]
      bl == IF lo < 0 THEN 1 ELSE 0
      mid == a[2] - b[2] - bl
      bm == IF mid < 0 THEN 1 ELSE 0
  IN  <<a[1] - b[1] - bm, mid + bm * Limb, lo + bl * Limb>>

\* Round the exact magnitude m + rem/den (0 <= rem < den) to a multiple of
\* 2^k, to nearest, ties to even.
RoundTo(m, rem, den, k) ==
  LET unit == 2^k
      q == m[3] \div unit
      r == m[3] % unit
      half == unit \div 2
      above == IF k = 0 THEN 2 * rem > den ELSE r > half \/ (r = half /\ rem > 0)
      tie == IF k = 0 THEN 2 * rem = den /\ rem > 0 ELSE r = half /\ rem = 0
      up == above \/ (tie /\ q % 2 = 1)
      lo == (q + (IF up THEN 1 ELSE 0)) * unit
      mid == m[2] + (lo \div Limb)
  IN  <<m[1] + (mid \div Limb), mid % Limb, lo % Limb>>

\* Round the exact magnitude m + rem/den to 53 significant bits.
Round(m, rem, den) ==
  RoundTo(m, rem, den, IF MagBits(m) > 53 THEN MagBits(m) - 53 ELSE 0)

WithSign(s, m) == IF m = <<0, 0, 0>> THEN Zero ELSE <<s, m[1], m[2], m[3]>>

\* The `+` of two numbers (GameEngine.ts:27).
FAdd(x, y) ==
  WithSign(IF x[1] = y[1] \/ ~MagLess(Mag(x), Mag(y)) THEN x[1] ELSE y[1],
           Round(IF x[1] = y[1] THEN MagAdd(Mag(x), Mag(y))
                 ELSE IF MagLess(Mag(x), Mag(y)) THEN MagSub(Mag(y), Mag(x))
                 ELSE MagSub(Mag(x), Mag(y)),
                 0, 1))

FNeg(x) == WithSign(0 - x[1], Mag(x))

\* The `-` of two numbers (GameEngine.ts:114).
FSub(x, y) == FAdd(x, FNeg(y))

\* Math.abs (GameEngine.ts:115).
FAbs(x) == <<1, x[2], x[3], x[4]>>

\* x < y on numbers.
FLess(x, y) ==
  IF x[1] = 1 /\ y[1] = 1 THEN MagLess(Mag(x), Mag(y))
  ELSE IF x[1] = -1 /\ y[1] = -1 THEN MagLess(Mag(y), Mag(x))
  ELSE x[1] = -1 /\ y[1] = 1

FGreater(x, y) == FLess(y, x)

FLeq(x, y) == ~FLess(y, x)

FGeq(x, y) == ~FLess(x, y)

\* The number denoted by the decimal literal h/100 (h an integer, |h| >= 4
\* or h = 0): the binary64 nearest to it.
Dec(h) ==
  LET a == IF h < 0 THEN 0 - h ELSE h
      n1 == a * 2^11
      q1 == n1 \div 100
      n2 == (n1 % 100) * Limb
      q2 == n2 \div 100
      n3 == (n2 % 100) * Limb
      q3 == n3 \div 100
  IN  WithSign(IF h < 0 THEN -1 ELSE 1, Round(<<q1, q2, q3>>, n3 % 100, 100))

(***************************************************************************)
(* Data: biomarkers, the homeostatic state, cards                          *)
(***************************************************************************)

\* HomeostaticSystem: the keys of a HomeostaticState.
Systems == {"glucose", "ph", "temperature"}

\* Object.values(session.currentState) enumerates the keys in this order.
SystemOrder == <<"glucose", "ph", "temperature">>

Biomarker(value, normal, critical) ==
  [currentValue |-> value, normalRange |-> normal, criticalRange |-> critical,
   isCritical |-> FALSE, trend |-> "stable"]

\* The HomeostaticState a new game starts with.
InitialState ==
  [glucose |-> Biomarker(Dec(9000), <<Dec(7000), Dec(11000)>>, <<Dec(5000), Dec(14000)>>),
   ph |-> Biomarker(Dec(740), <<Dec(735), Dec(745)>>, <<Dec(720), Dec(760)>>),
   temperature |-> Biomarker(Dec(3700), <<Dec(3650), Dec(3750)>>, <<Dec(3500), Dec(3900)>>)]

Effect(target, hundredths, type, duration) ==
  [targetSystem |-> target, value |-> Dec(hundredths), type |-> type, duration |-> duration]

\* The cards of the runs, by name.  CardId gives the id of a card (the
\* code compares cards by id only), Effects its ordered effect list.
\* "hypoglycemic-shock", "acidosis-attack", "heat-stroke", "fever-spike" and
\* "electrolyte-balance" are cards of the content table; "insulin" (-10),
\* "overdose" (-50), "purge" (-1000), "buffer" (-10 and pH +0.05) and "rest"
\* (no effect) have the effects of the cards of the engine's tests, each
\* with an id of its own; "zero", "zeroPh", "swing",
\* "tenthUp" and "tenthDown" combine several effects on one system; "bad"
\* names a system that does not exist.  A missing duration is 0.  These
\* are the cards played in the runs of the engine alone; the runs of the
\* application play the cards of ActionDeck.
Cards ==
  {"rest", "insulin", "overdose", "hypoglycemic-shock", "purge", "buffer", "acidosis-attack", "heat-stroke",
   "fever-spike", "electrolyte-balance", "zero", "zeroPh", "swing", "tenthUp", "tenthDown",
   "bad"}

\* An effect as the engine's test suite writes it (no type).
MockEffect(target, hundredths) ==
  [targetSystem |-> target, value |-> Dec(hundredths), duration |-> 1]

\* The cards the engine's test suite plays: mockCard and the cards built
\* from it with { ...mockCard, ... }.
MockCards ==
  {"mockCard", "criticalCard", "increasingCard", "multiEffectCard", "invalidCard",
   "extremeCard", "noEffectCard", "manyEffectsCard"}

\* card.id: the cards built from mockCard have its id, but invalidCard.
CardId(card) ==
  IF card = "invalidCard" THEN "not-in-hand"
  ELSE IF card \in MockCards THEN "test-card-1"
  ELSE card

Effects(card) ==
  CASE card = "rest" -> <<>>
    [] card \in {"mockCard", "invalidCard"} -> <<MockEffect("glucose", -1000)>>
    [] card = "criticalCard" -> <<MockEffect("glucose", -5000)>>
    [] card = "increasingCard" -> <<MockEffect("glucose", 2000)>>
    [] card = "multiEffectCard" -> <<MockEffect("glucose", -1000), MockEffect("ph", 5)>>
    [] card = "extremeCard" -> <<MockEffect("glucose", -100000)>>
    [] card = "noEffectCard" -> <<>>
    [] card = "manyEffectsCard" ->
         [i \in 1..100 |-> MockEffect("glucose", IF i % 2 = 1 THEN 100 ELSE -100)]
    [] card = "insulin" -> <<Effect("glucose", -1000, "INSTANT", 1)>>
    [] card = "overdose" -> <<Effect("glucose", -5000, "INSTANT", 1)>>
    [] card = "hypoglycemic-shock" -> <<Effect("glucose", -4000, "INSTANT", 0)>>
    [] card = "purge" -> <<Effect("glucose", -100000, "CONDITIONAL", 1)>>
    [] card = "buffer" -> <<Effect("glucose", -1000, "INSTANT", 1),
                            Effect("ph", 5, "CONTINUOUS", 2)>>
    [] card = "acidosis-attack" -> <<Effect("ph", -30, "INSTANT", 0)>>
    [] card = "heat-stroke" -> <<Effect("temperature", 350, "INSTANT", 0)>>
    [] card = "fever-spike" -> <<Effect("temperature", 200, "INSTANT", 0)>>
    [] card = "electrolyte-balance" -> <<Effect("ph", 10, "INSTANT", 0)>>
    [] card = "zero" -> <<Effect("glucose", 1000, "INSTANT", 1),
                          Effect("glucose", -1000, "INSTANT", 1)>>
    [] card = "zeroPh" -> <<Effect("ph", 1000, "INSTANT", 1),
                            Effect("ph", -1000, "INSTANT", 1)>>
    [] card = "swing" -> <<Effect("glucose", -5000, "INSTANT", 0),
                           Effect("ph", -30, "INSTANT", 0),
                           Effect("glucose", 5000, "INSTANT", 0)>>
    [] card = "tenthUp" -> <<Effect("glucose", -9000, "INSTANT", 0),
                             Effect("glucose", 10, "INSTANT", 0)>>
    [] card = "tenthDown" -> <<Effect("glucose", -9000, "INSTANT", 0),
                               Effect("glucose", -10, "INSTANT", 0)>>
    [] card = "bad" -> <<Effect("glucose", -1000, "INSTANT", 1),
                         Effect("liver", 5, "INSTANT", 1)>>
    [] card = "insulin-injection" -> <<Effect("glucose", -3000, "INSTANT", 0)>>
    [] card = "glucagon-release" -> <<Effect("glucose", 2500, "INSTANT", 0)>>
    [] card = "sodium-bicarbonate" -> <<Effect("ph", 20, "INSTANT", 0)>>
    [] card = "cooling-protocol" -> <<Effect("temperature", -150, "CONTINUOUS", 3)>>
    [] card = "heating-blanket" -> <<Effect("temperature", 80, "CONTINUOUS", 4)>>
    [] card = "metformin" -> <<Effect("glucose", -1500, "CONTINUOUS", 5)>>
    [] card = "stress-response" -> <<Effect("glucose", 2000, "INSTANT", 0),
                                     Effect("temperature", 30, "INSTANT", 0)>>
    [] card = "diuretic-therapy" -> <<Effect("ph", 10, "CONTINUOUS", 2)>>
    [] card = "glucose-iv" -> <<Effect("glucose", 4000, "INSTANT", 0)>>
    [] card = "shivering-response" -> <<Effect("temperature", 120, "CONTINUOUS", 3)>>

\* initialCards.filter(card => card.type === 'ACAO'): the cards of type
\* CardType.ACTION, in the order of the content table.
ActionDeck ==
  <<"insulin-injection", "glucagon-release", "sodium-bicarbonate", "cooling-protocol",
    "heating-blanket", "metformin", "electrolyte-balance", "stress-response",
    "diuretic-therapy", "glucose-iv", "shivering-response">>

\* drawnCard: null
NoCard == "null"

(***************************************************************************)
(* GameEngine                                                              *)
(***************************************************************************)

\* Faulty variant: the critical bounds themselves count as critical.
isCritical_Inclusive(biomarker, value) ==
  LET minCritical == biomarker.criticalRange[1]
      maxCritical == biomarker.criticalRange[2]
  IN  FLeq(value, minCritical) \/ FGeq(value, maxCritical)

isCritical(biomarker, value) ==
  LET minCritical == biomarker.criticalRange[1]
      maxCritical == biomarker.criticalRange[2]
  IN  FLess(value, minCritical) \/ FGreater(value, maxCritical)

\* Faulty variant: a difference of exactly 0.1 still counts as stable.
calculateTrend_Inclusive(oldValue, newValue) ==
  LET diff == FSub(newValue, oldValue)
  IN  IF FLeq(FAbs(diff), Dec(10)) THEN "stable"
      ELSE IF FGreater(diff, Zero) THEN "increasing" ELSE "decreasing"

calculateTrend(oldValue, newValue) ==
  LET diff == FSub(newValue, oldValue)
  IN  IF FLess(FAbs(diff), Dec(10)) THEN "stable"
      ELSE IF FGreater(diff, Zero) THEN "increasing" ELSE "decreasing"

\* Faulty variant: values are clamped at zero.
EffectValue_Clamped(oldValue, effect) ==
  LET sum == FAdd(oldValue, effect.value)
  IN  IF FLess(sum, Zero) THEN Zero ELSE sum

\* The new value an effect gives a biomarker.
EffectValue(oldValue, effect) == FAdd(oldValue, effect.value)

\* The biomarker entry an effect puts in place of the old one:
\* { ...biomarker, currentValue, isCritical, trend }.
UpdatedBiomarker(biomarker, oldValue, newValue) ==
  [biomarker EXCEPT !.currentValue = newValue,
                    !.isCritical = isCritical(biomarker, newValue),
                    !.trend = calculateTrend(oldValue, newValue)]

\* The history entry of an effect.
HistoryEntry(effect, oldValue, newValue, playedCard) ==
  [system |-> effect.targetSystem, oldValue |-> oldValue, newValue |-> newValue,
   change |-> effect.value, reason |-> playedCard]

\* Faulty variant: the history entry's change is computed as newValue - oldValue.
ApplyEffect_ChangeFromDiff(state, effect, playedCard) ==
  LET systemKey == effect.targetSystem
      oldValue == state[systemKey].currentValue
      newValue == EffectValue(oldValue, effect)
  IN  [state |-> [state EXCEPT ![systemKey] =
                    UpdatedBiomarker(state[systemKey], oldValue, newValue)],
       entry |-> [HistoryEntry(effect, oldValue, newValue, playedCard)
                    EXCEPT !.change = FSub(newValue, oldValue)]]

\* One iteration of the forEach of processTurn on the (shared) state object:
\* the biomarker entry is replaced, a history entry is made.
ApplyEffect(state, effect, playedCard) ==
  LET systemKey == effect.targetSystem
      oldValue == state[systemKey].currentValue
      newValue == EffectValue(oldValue, effect)
  IN  [state |-> [state EXCEPT ![systemKey] =
                    UpdatedBiomarker(state[systemKey], oldValue, newValue)],
       entry |-> HistoryEntry(effect, oldValue, newValue, playedCard)]

\* The two ranges of a biomarker are arrays.  The biomarkers of the runs
\* have one of two shapes: that of the application (normalRange and
\* criticalRange, both arrays of two numbers) and that of the engine's test
\* suite (normalRange an object { min, max }, no criticalRange); the
\* presence of criticalRange tells them apart.
RangesAreArrays(biomarker) == "criticalRange" \in DOMAIN biomarker

\* An iteration of the forEach throws a TypeError before it assigns
\* anything: at the read of .currentValue when the effect names no key of
\* the state, in the array destructuring of isCritical when a range of the
\* biomarker is not an array.
EffectThrows(state, effect) ==
  \/ effect.targetSystem \notin Systems
  \/ ~RangesAreArrays(state[effect.targetSystem])

RECURSIVE ForEachEffect(_, _, _, _)

\* Faulty variant: two successive effects on one system that cancel out are
\* dropped before the effects are applied.
ForEachEffect_DropNetZero(state, effects, history, playedCard) ==
  IF effects = <<>> THEN [state |-> state, history |-> history, threw |-> FALSE]
  ELSE IF /\ Len(effects) >= 2
          /\ effects[1].targetSystem = effects[2].targetSystem
          /\ effects[1].value = FNeg(effects[2].value)
       THEN ForEachEffect(state, Tail(Tail(effects)), history, playedCard)
  ELSE IF EffectThrows(state, Head(effects))
       THEN [state |-> state, history |-> history, threw |-> TRUE]
  ELSE LET step == ApplyEffect(state, Head(effects), playedCard)
       IN  ForEachEffect(step.state, Tail(effects),
                         Append(history, step.entry), playedCard)

\* playedCard.effects.forEach(...): the effects in list order.  When an
\* iteration throws, the entries replaced before it stay replaced.
ForEachEffect(state, effects, history, playedCard) ==
  IF effects = <<>> THEN [state |-> state, history |-> history, threw |-> FALSE]
  ELSE IF EffectThrows(state, Head(effects))
       THEN [state |-> state, history |-> history, threw |-> TRUE]
  ELSE LET step == ApplyEffect(state, Head(effects), playedCard)
       IN  ForEachEffect(step.state, Tail(effects),
                         Append(history, step.entry), playedCard)

\* Faulty variant: defeat needs all three systems critical.
checkGameEnd_DefeatAtThree(session, objs) ==
  LET state == objs[session.currentState]
      criticalSystems == {i \in 1..Len(SystemOrder) : state[SystemOrder[i]].isCritical}
      allStable == \A i \in 1..Len(SystemOrder) :
                     LET system == state[SystemOrder[i]]
                     IN  /\ ~system.isCritical
                         /\ FGeq(system.currentValue, system.normalRange[1])
                         /\ FLeq(system.currentValue, system.normalRange[2])
  IN  IF Cardinality(criticalSystems) > 2 THEN "DEFEAT"
      ELSE IF allStable /\ session.turnCount > 5 THEN "VICTORY"
      ELSE "IN_PROGRESS"

\* Faulty variant: victory does not look at the normal ranges.
checkGameEnd_NoRangeCheck(session, objs) ==
  LET state == objs[session.currentState]
      criticalSystems == {i \in 1..Len(SystemOrder) : state[SystemOrder[i]].isCritical}
      allStable == \A i \in 1..Len(SystemOrder) : ~state[SystemOrder[i]].isCritical
  IN  IF Cardinality(criticalSystems) >= 2 THEN "DEFEAT"
      ELSE IF allStable /\ session.turnCount > 5 THEN "VICTORY"
      ELSE "IN_PROGRESS"

\* checkGameEnd(session), session.currentState being the object objs[ref].
\* normalRange[0] of a range that is no array is undefined, and a comparison
\* with undefined is false.
checkGameEnd(session, objs) ==
  LET state == objs[session.currentState]
      criticalSystems == {i \in 1..Len(SystemOrder) : state[SystemOrder[i]].isCritical}
      allStable == \A i \in 1..Len(SystemOrder) :
                     LET system == state[SystemOrder[i]]
                     IN  /\ ~system.isCritical
                         /\ RangesAreArrays(system)
                         /\ FGeq(system.currentValue, system.normalRange[1])
                         /\ FLeq(system.currentValue, system.normalRange[2])
  IN  IF Cardinality(criticalSystems) >= 2 THEN "DEFEAT"
      ELSE IF allStable /\ session.turnCount > 5 THEN "VICTORY"
      ELSE "IN_PROGRESS"

\* Faulty variant: the first card of the hand is removed, whatever was played.
RemoveFromHand_DropFirst(hand, playedCard) ==
  IF hand = <<>> THEN hand ELSE Tail(hand)

\* hand.filter(card => card.id !== playedCard.id)
RemoveFromHand(hand, playedCard) ==
  SelectSeq(hand, LAMBDA c : CardId(c) # CardId(playedCard))

\* Faulty variant: the turn is not counted once the game has ended.
EndOfTurn_CountWhileRunning(newSession, objs) ==
  LET status == checkGameEnd(newSession, objs)
  IN  [[newSession EXCEPT !.status = status]
         EXCEPT !.turnCount = IF status = "IN_PROGRESS" THEN @ + 1 ELSE @]

\* The status and the turn count of the session processTurn returns.
EndOfTurn(newSession, objs) ==
  [[newSession EXCEPT !.status = checkGameEnd(newSession, objs)]
     EXCEPT !.turnCount = @ + 1]

\* Faulty variant: a card that is not in the hand is not discarded.
AfterEffects_DiscardFromHand(session, playedCard, objs, run) ==
  LET objs1 == [objs EXCEPT ![session.currentState] = run.state]
      inHand == \E i \in DOMAIN session.hand : session.hand[i] = playedCard
      moved == [session EXCEPT !.hand = RemoveFromHand(session.hand, playedCard),
                               !.discardPile = IF inHand THEN Append(session.discardPile, playedCard)
                                               ELSE session.discardPile]
  IN  [threw |-> run.threw,
       session |-> session,
       newSession |-> IF run.threw THEN session ELSE EndOfTurn(moved, objs1),
       history |-> run.history,
       objs |-> objs1]

\* Faulty variant: the termination rule is applied after each effect, and a
\* defeat found after any of them stays.
AfterEffects_CheckEachEffect(session, playedCard, objs, run) ==
  LET objs1 == [objs EXCEPT ![session.currentState] = run.state]
      moved == [session EXCEPT !.hand = RemoveFromHand(session.hand, playedCard),
                               !.discardPile = Append(session.discardPile, playedCard)]
      effects == Effects(playedCard)
      defeated == \E n \in 1..Len(effects) :
                    \E pre \in {ForEachEffect(objs[session.currentState], SubSeq(effects, 1, n),
                                              <<>>, playedCard)} :
                      /\ ~pre.threw
                      /\ Cardinality({s \in Systems : pre.state[s].isCritical}) >= 2
  IN  [threw |-> run.threw,
       session |-> session,
       newSession |-> IF run.threw THEN session
                      ELSE IF defeated THEN [EndOfTurn(moved, objs1) EXCEPT !.status = "DEFEAT"]
                      ELSE EndOfTurn(moved, objs1),
       history |-> run.history,
       objs |-> objs1]

\* processTurn after its forEach (run: the state object as the effects left
\* it, the history, and whether an effect threw): the card goes from the
\* hand to the discard pile, the status is set, the turn counted.
AfterEffects(session, playedCard, objs, run) ==
  LET objs1 == [objs EXCEPT ![session.currentState] = run.state]
      moved == [session EXCEPT !.hand = RemoveFromHand(session.hand, playedCard),
                               !.discardPile = Append(session.discardPile, playedCard)]
  IN  [threw |-> run.threw,
       session |-> session,
       newSession |-> IF run.threw THEN session ELSE EndOfTurn(moved, objs1),
       history |-> run.history,
       objs |-> objs1]

\* processTurn(session, playedCard) on the heap objs of HomeostaticState
\* objects.  { ...session } copies the fields of session, among them the
\* reference currentState: the returned session and the session passed in
\* share one state object, which the effects update in place.  No field of
\* the object `session` itself is assigned.
processTurn(session, playedCard, objs) ==
  LET ref == session.currentState
  IN  AfterEffects(session, playedCard, objs,
                   ForEachEffect(objs[ref], Effects(playedCard), <<>>, playedCard))

\* Faulty variant: the reshuffle copies the discard pile without emptying it.
drawCard_KeepDiscard(session) ==
  LET reshuffled == IF Len(session.deck) = 0
                    THEN [session EXCEPT !.deck = session.discardPile]
                    ELSE session
  IN  IF Len(reshuffled.deck) = 0
      THEN [session |-> session, newSession |-> reshuffled, drawnCard |-> "null"]
      ELSE [session |-> session,
            newSession |-> [reshuffled EXCEPT !.deck = Tail(reshuffled.deck),
                                              !.hand = Append(reshuffled.hand, Head(reshuffled.deck))],
            drawnCard |-> Head(reshuffled.deck)]

\* Faulty variant: the reshuffle turns the discard pile over (last card first).
drawCard_ReshuffleReversed(session) ==
  LET n == Len(session.discardPile)
      reshuffled == IF Len(session.deck) = 0
                    THEN [session EXCEPT !.deck = [i \in 1..n |-> session.discardPile[n + 1 - i]],
                                         !.discardPile = <<>>]
                    ELSE session
  IN  IF Len(reshuffled.deck) = 0
      THEN [session |-> session, newSession |-> reshuffled, drawnCard |-> NoCard]
      ELSE [session |-> session,
            newSession |-> [reshuffled EXCEPT !.deck = Tail(reshuffled.deck),
                                              !.hand = Append(reshuffled.hand, Head(reshuffled.deck))],
            drawnCard |-> Head(reshuffled.deck)]

\* Faulty variant: no check for a deck that is still empty; deck[0], which
\* does not exist, is put in the hand.
drawCard_NoEmptyCheck(session) ==
  LET reshuffled == IF Len(session.deck) = 0
                    THEN [session EXCEPT !.deck = session.discardPile,
                                         !.discardPile = <<>>]
                    ELSE session
  IN  IF Len(reshuffled.deck) = 0
      THEN [session |-> session,
            newSession |-> [reshuffled EXCEPT !.hand = Append(reshuffled.hand, NoCard)],
            drawnCard |-> NoCard]
      ELSE [session |-> session,
            newSession |-> [reshuffled EXCEPT !.deck = Tail(reshuffled.deck),
                                              !.hand = Append(reshuffled.hand, Head(reshuffled.deck))],
            drawnCard |-> Head(reshuffled.deck)]

\* Faulty variant: the card drawn is the last card of the deck.
drawCard_DrawLast(session) ==
  LET reshuffled == IF Len(session.deck) = 0
                    THEN [session EXCEPT !.deck = session.discardPile,
                                         !.discardPile = <<>>]
                    ELSE session
      n == Len(reshuffled.deck)
  IN  IF n = 0
      THEN [session |-> session, newSession |-> reshuffled, drawnCard |-> NoCard]
      ELSE [session |-> session,
            newSession |-> [reshuffled EXCEPT !.deck = SubSeq(reshuffled.deck, 1, n - 1),
                                              !.hand = Append(reshuffled.hand, reshuffled.deck[n])],
            drawnCard |-> reshuffled.deck[n]]

\* Faulty variant: drawing a card counts as a turn.
drawCard_CountsTurn(session) ==
  LET reshuffled == IF Len(session.deck) = 0
                    THEN [session EXCEPT !.deck = session.discardPile,
                                         !.discardPile = <<>>]
                    ELSE session
  IN  IF Len(reshuffled.deck) = 0
      THEN [session |-> session, newSession |-> reshuffled, drawnCard |-> NoCard]
      ELSE [session |-> session,
            newSession |-> [reshuffled EXCEPT !.deck = Tail(reshuffled.deck),
                                              !.hand = Append(reshuffled.hand, Head(reshuffled.deck)),
                                              !.turnCount = @ + 1],
            drawnCard |-> Head(reshuffled.deck)]

\* drawCard(session)
drawCard(session) ==
  LET reshuffled == IF Len(session.deck) = 0
                    THEN [session EXCEPT !.deck = session.discardPile,
                                         !.discardPile = <<>>]
                    ELSE session
  IN  IF Len(reshuffled.deck) = 0
      THEN [session |-> session, newSession |-> reshuffled, drawnCard |-> NoCard]
      ELSE [session |-> session,
            newSession |-> [reshuffled EXCEPT !.deck = Tail(reshuffled.deck),
                                              !.hand = Append(reshuffled.hand, Head(reshuffled.deck))],
            drawnCard |-> Head(reshuffled.deck)]

\* Faulty variant: the score is not floored at 0.
getScore_NoFloor(session, objs) ==
  LET state == objs[session.currentState]
      baseScore == 1000
      turnPenalty == session.turnCount * 10
      criticalPenalty ==
        Cardinality({i \in 1..Len(SystemOrder) : state[SystemOrder[i]].isCritical}) * 50
      stabilityBonus ==
        Cardinality({i \in 1..Len(SystemOrder) :
                       LET s == state[SystemOrder[i]]
                       IN  /\ FGeq(s.currentValue, s.normalRange[1])
                           /\ FLeq(s.currentValue, s.normalRange[2])}) * 100
  IN  baseScore - turnPenalty - criticalPenalty + stabilityBonus

\* getScore(session), session.currentState being the object objs[ref].  All
\* the numbers involved are integers of small magnitude, exact in binary64.
getScore(session, objs) ==
  LET state == objs[session.currentState]
      baseScore == 1000
      turnPenalty == session.turnCount * 10
      criticalPenalty ==
        Cardinality({i \in 1..Len(SystemOrder) : state[SystemOrder[i]].isCritical}) * 50
      stabilityBonus ==
        Cardinality({i \in 1..Len(SystemOrder) :
                       LET s == state[SystemOrder[i]]
                       IN  /\ RangesAreArrays(s)
                           /\ FGeq(s.currentValue, s.normalRange[1])
                           /\ FLeq(s.currentValue, s.normalRange[2])}) * 100
      total == baseScore - turnPenalty - criticalPenalty + stabilityBonus
  IN  IF total > 0 THEN total ELSE 0

(***************************************************************************)
(* App: the handlers of the game screen and the new game                   *)
(***************************************************************************)

\* session.currentEvent of a session no event was applied to.
NoEvent == "undefined"

\* GameDifficulty
GameDifficulties == {"easy", "medium", "hard"}

\* Date.now().toString() at the n-th call of a run.
DateNow(n) == "170000000000" \o ToString(n)

\* The ids of the events of generateRandomEvent.
Events == {"random-glucose-spike", "dehydration-risk", "infection-response", "exercise-effect"}

EventEffect(system, hundredths, duration) ==
  [system |-> system, value |-> Dec(hundredths), duration |-> duration]

EventEffects(event) ==
  CASE event = "random-glucose-spike" -> <<EventEffect("glucose", 2500, 0)>>
    [] event = "dehydration-risk" -> <<EventEffect("ph", -10, 0)>>
    [] event = "infection-response" -> <<EventEffect("temperature", 150, 2)>>
    [] event = "exercise-effect" -> <<EventEffect("glucose", -1500, 0),
                                      EventEffect("temperature", 50, 1)>>

\* Faulty variant: the event changes the value and leaves the critical flag.
EventBiomarker_KeepFlag(system, newValue) ==
  [system EXCEPT !.currentValue = newValue]

\* The biomarker entry handleEndTurn makes for one event effect: the value
\* and the critical flag are new, every other field (the trend among them)
\* is copied.
EventBiomarker(system, newValue) ==
  [system EXCEPT !.currentValue = newValue,
                 !.isCritical = \/ FLess(newValue, system.criticalRange[1])
                                \/ FGreater(newValue, system.criticalRange[2])]

\* event.effects.forEach(...) of handleEndTurn on the (shared) state object.
RECURSIVE ForEachEventEffect(_, _)
ForEachEventEffect(state, effects) ==
  IF effects = <<>> THEN state
  ELSE LET systemKey == Head(effects).system
       IN  ForEachEventEffect(
             [state EXCEPT ![systemKey] =
                EventBiomarker(state[systemKey],
                               FAdd(state[systemKey].currentValue, Head(effects).value))],
             Tail(effects))

\* The request body of gameSave.saveSession(session): JSON.stringify copies
\* the session with its state as they are at the call.
SaveBody(session, objs) ==
  <<[sessionId |-> session.id, gameData |-> session,
     currentState |-> objs[session.currentState], difficulty |-> session.difficulty,
     status |-> session.status, score |-> session.score, turnCount |-> session.turnCount,
     playerName |-> "Jogador"]>>

\* useState<GameSession | null>(null): no session.
NoSession == [null |-> TRUE]

HasSession(session) == "status" \in DOMAIN session

\* createNewGameSession(difficulty, system), now being Date.now().toString():
\* the session literal, the five draws into updatedSession, and the session
\* handed to setGameSession (newSession).  system is not used.
createNewGameSession(difficulty, now) ==
  LET newSession == [id |-> now, playerId |-> "player-1", difficulty |-> difficulty,
                     status |-> "IN_PROGRESS", currentState |-> 1,
                     hand |-> <<>>, deck |-> ActionDeck, discardPile |-> <<>>,
                     score |-> 0, turnCount |-> 0, currentEvent |-> NoEvent]
      d1 == drawCard(newSession).newSession
      d2 == drawCard(d1).newSession
      d3 == drawCard(d2).newSession
      d4 == drawCard(d3).newSession
      d5 == drawCard(d4).newSession
  IN  [gameSession |-> newSession, updatedSession |-> d5,
       objs |-> [r \in {1} |-> InitialState], currentScreen |-> "game"]

\* The session and the state objects after handleEndTurn has applied the
\* event effects (objs1): the event is stored, the score is computed on the
\* session before the turn is counted, the turn is counted.
EndTurnSession(session, event, objs1) ==
  [session EXCEPT !.currentEvent = event,
                  !.score = getScore(session, objs1),
                  !.turnCount = @ + 1]

\* Faulty variant: the turn counter restarts when the turn ends.
handleEndTurn_ResetCount(session, event, objs) ==
  LET objs1 == [objs EXCEPT ![session.currentState] =
                  ForEachEventEffect(objs[session.currentState], EventEffects(event))]
      newSession == [EndTurnSession(session, event, objs1) EXCEPT !.turnCount = 0]
  IN  [gameSession |-> newSession, objs |-> objs1, saved |-> SaveBody(newSession, objs1),
       awaiting |-> [handler |-> "handleEndTurn", status |-> newSession.status]]

\* handleEndTurn with the event generateRandomEvent returned, up to its
\* await of gameSave.saveSession, after which it does nothing.  There is no
\* test of the status.  { ...gameSession } shares the state object.
\* awaiting: the handler suspended and the status of its newSession.
handleEndTurn(session, event, objs) ==
  LET objs1 == [objs EXCEPT ![session.currentState] =
                  ForEachEventEffect(objs[session.currentState], EventEffects(event))]
      newSession == EndTurnSession(session, event, objs1)
  IN  [gameSession |-> newSession, objs |-> objs1, saved |-> SaveBody(newSession, objs1),
       awaiting |-> [handler |-> "handleEndTurn", status |-> newSession.status]]

\* handlePlayCard(card) past its guard (status IN_PROGRESS) and up to its
\* await of gameSave.saveSession: r is the result of processTurn.
PlayedCard(r) ==
  [gameSession |-> r.newSession, objs |-> r.objs, history |-> r.history,
   saved |-> SaveBody(r.newSession, r.objs),
   awaiting |-> [handler |-> "handlePlayCard", status |-> r.newSession.status]]

\* A handler resumes after its await (saveSession has returned, whatever
\* the response): handlePlayCard calls setTimeout when the session it
\* passed to saveSession has ended.
SetsTimeout(awaiting) ==
  awaiting.handler = "handlePlayCard" /\ awaiting.status # "IN_PROGRESS"

\* nextDifficulty of handleNextLevel.
nextDifficulty(session) ==
  IF HasSession(session) /\ session.difficulty = "easy" THEN "medium" ELSE "hard"

handlePlayCard(session, playedCard, objs) ==
  PlayedCard(processTurn(session, playedCard, objs))

\* handleDrawCard past its guard (status IN_PROGRESS).
handleDrawCard(session) == drawCard(session)

\* One player action of a game in progress, on the application state g
\* (the active session, the state objects, the last request body saved),
\* run until the response to its save has arrived:
\* <<"draw">>, <<"event", id>> (end of turn with that event), <<"play", id>>.
AfterStep(g, step) ==
  CASE step[1] = "draw" ->
         [g EXCEPT !.gameSession = handleDrawCard(g.gameSession).newSession]
    [] step[1] = "event" ->
         LET r == handleEndTurn(g.gameSession, step[2], g.objs)
         IN  [gameSession |-> r.gameSession, objs |-> r.objs, saved |-> r.saved]
    [] step[1] = "play" ->
         LET r == handlePlayCard(g.gameSession, step[2], g.objs)
         IN  [gameSession |-> r.gameSession, objs |-> r.objs, saved |-> r.saved]

RECURSIVE AfterSteps(_, _)
AfterSteps(g, steps) ==
  IF steps = <<>> THEN g ELSE AfterSteps(AfterStep(g, Head(steps)), Tail(steps))

\* The games the runs of the application start in, each given by the player
\* actions that lead to it from a new game: the new game itself; a game
\* with temperature 40.5 (critical) and glucose 75 after three turns, two
\* cards in hand; a game after seven turns with glucose 110, temperature
\* 36.5 and pH 7.2, three cards in hand.
AppRuns ==
  {<<>>,
   <<<<"draw">>, <<"draw">>, <<"event", "infection-response">>,
     <<"event", "infection-response">>, <<"event", "exercise-effect">>>>,
   <<<<"draw">>, <<"draw">>, <<"draw">>, <<"draw">>,
     <<"event", "exercise-effect">>, <<"event", "exercise-effect">>,
     <<"event", "random-glucose-spike">>, <<"event", "random-glucose-spike">>,
     <<"event", "dehydration-risk">>, <<"event", "dehydration-risk">>,
     <<"play", "cooling-protocol">>>>}

(***************************************************************************)
(* Backend worker: the table game_sessions and the endpoints on it         *)
(***************************************************************************)

\* Number of calls (of the engine, of the handlers, of the worker) of a run.
MaxCalls == 2

\* SQL NULL, and the null of request.headers.get.
Null == "null"

\* Values of the header X-Encrypted-Yw-ID.
Users == {"A", "B"}

\* Session ids (the application uses Date.now().toString()).
SessionIds == {"1700000000001", "1700000000002"}

\* new Date(now).toISOString() for the now-th millisecond of the run.
toISOString(now) == "2026-01-01T00:00:00.00" \o ToString(now) \o "Z"

\* JSON.stringify of the game data of a request: a session reduced to its
\* id and turn count.
JSONstringify(gameData) ==
  "{\"id\":\"" \o gameData.id \o "\",\"turnCount\":" \o ToString(gameData.turnCount) \o "}"

\* body.key || 0 for a key the body may lack.
OrZero(body, key) == IF key \in DOMAIN body THEN body[key] ELSE 0

\* completedAt of saveSession and updateSession.
CompletedAt(status, now) ==
  IF status \in {"COMPLETED", "VITORIA", "DERROTA"} THEN toISOString(now) ELSE Null

\* new Response(JSON.stringify(body), { status }): the status and the body
\* (Null for the empty body of the preflight response).
Response(status, body) == [status |-> status, body |-> body]

\* now, for a time column written by toISOString(now) in the run.
Millis(column) == CHOOSE now \in 0..MaxCalls : toISOString(now) = column

\* JSON.parse of a game_data column.
JSONparse(column) ==
  CHOOSE gameData \in [id : SessionIds, turnCount : 0..9] : JSONstringify(gameData) = column

\* ORDER BY updated_at DESC (no two rows are written at the same time).
RECURSIVE OrderByUpdatedDesc(_)
OrderByUpdatedDesc(rows) ==
  IF rows = {} THEN <<>>
  ELSE LET latest == CHOOSE r \in rows :
                       \A q \in rows : Millis(q.updated_at) <= Millis(r.updated_at)
       IN  <<latest>> \o OrderByUpdatedDesc(rows \ {latest})

\* A row of game_sessions is a record of its columns but the surrogate key
\* id, which no statement of the worker reads or writes.
\* POST /sessions: INSERT ... ON CONFLICT(session_id) DO UPDATE SET game_data,
\* status, score, turn_count, updated_at, completed_at.  The conflict is on
\* session_id alone; the row keeps its encrypted_yw_id, player_name,
\* difficulty and created_at.  A body lacks a field or has it non-empty.
saveSession(db, body, userId, now) ==
  IF \E key \in {"sessionId", "gameData", "difficulty", "status"} : key \notin DOMAIN body
  THEN [db |-> db, response |-> Response(400, [error |-> "Missing required fields"])]
  ELSE LET excluded == [session_id |-> body.sessionId, encrypted_yw_id |-> userId,
                        player_name |-> body.playerName,
                        game_data |-> JSONstringify(body.gameData),
                        difficulty |-> body.difficulty, status |-> body.status,
                        score |-> OrZero(body, "score"),
                        turn_count |-> OrZero(body, "turnCount"),
                        created_at |-> toISOString(now), updated_at |-> toISOString(now),
                        completed_at |-> CompletedAt(body.status, now)]
           conflict == {row \in db : row.session_id = body.sessionId}
       IN  [db |-> IF conflict = {} THEN db \cup {excluded}
                   ELSE (db \ conflict) \cup
                        {[row EXCEPT !.game_data = excluded.game_data,
                                     !.status = excluded.status,
                                     !.score = excluded.score,
                                     !.turn_count = excluded.turn_count,
                                     !.updated_at = excluded.updated_at,
                                     !.completed_at = excluded.completed_at] : row \in conflict},
            response |-> Response(200, [success |-> TRUE, sessionId |-> body.sessionId])]

\* GET /sessions: the selected columns of the rows of the user.
loadSessions(db, userId) ==
  LET columns == {"session_id", "player_name", "difficulty", "status", "score",
                  "turn_count", "created_at", "updated_at", "completed_at"}
      results == OrderByUpdatedDesc({row \in db : row.encrypted_yw_id = userId})
  IN  [db |-> db,
       response |-> Response(200, [sessions |-> [i \in DOMAIN results |->
                                                  [c \in columns |-> results[i][c]]]])]

\* GET /sessions/:id
loadSession(db, userId, sessionId) ==
  LET result == {row \in db : row.session_id = sessionId /\ row.encrypted_yw_id = userId}
  IN  [db |-> db,
       response |-> IF result = {} THEN Response(404, [error |-> "Session not found"])
                    ELSE Response(200, [session |->
                           [(CHOOSE row \in result : TRUE)
                              EXCEPT !.game_data = JSONparse(@)]])]

\* What run() of a D1 statement resolves to: the number of rows changed is
\* meta.changes; the object has no property changes.
Run(changes) == [success |-> TRUE, meta |-> [changes |-> changes]]

\* result.changes === 0
NoChanges(result) == "changes" \in DOMAIN result /\ result.changes = 0

\* PUT /sessions/:id: UPDATE ... WHERE session_id = ? AND encrypted_yw_id = ?.
\* The body has gameData and status.
updateSession(db, body, userId, sessionId, now) ==
  LET matched == {row \in db : row.session_id = sessionId /\ row.encrypted_yw_id = userId}
      result == Run(Cardinality(matched))
  IN  [db |-> (db \ matched) \cup
              {[row EXCEPT !.game_data = JSONstringify(body.gameData),
                           !.status = body.status,
                           !.score = OrZero(body, "score"),
                           !.turn_count = OrZero(body, "turnCount"),
                           !.updated_at = toISOString(now),
                           !.completed_at = CompletedAt(body.status, now)] : row \in matched},
       response |-> IF NoChanges(result)
                    THEN Response(404, [error |-> "Session not found or not owned by user"])
                    ELSE Response(200, [success |-> TRUE])]

\* DELETE /sessions/:id: DELETE ... WHERE session_id = ? AND encrypted_yw_id = ?.
deleteSession(db, userId, sessionId) ==
  LET matched == {row \in db : row.session_id = sessionId /\ row.encrypted_yw_id = userId}
      result == Run(Cardinality(matched))
  IN  [db |-> db \ matched,
       response |-> IF NoChanges(result)
                    THEN Response(404, [error |-> "Session not found or not owned by user"])
                    ELSE Response(200, [success |-> TRUE])]

\* The branch fetch takes: a request is its method, its path split at
\* "/", the value of the header X-Encrypted-Yw-ID and its JSON body.
Handler(request) ==
  IF request.method = "OPTIONS" THEN "preflight"
  ELSE IF request.userId = Null THEN "unauthenticated"
  ELSE IF request.path = <<"sessions">> /\ request.method = "POST" THEN "saveSession"
  ELSE IF request.path = <<"sessions">> /\ request.method = "GET" THEN "loadSessions"
  ELSE IF Len(request.path) = 2 /\ request.path[1] = "sessions" /\ request.method = "GET"
       THEN "loadSession"
  ELSE IF Len(request.path) = 2 /\ request.path[1] = "sessions" /\ request.method = "PUT"
       THEN "updateSession"
  ELSE IF Len(request.path) = 2 /\ request.path[1] = "sessions" /\ request.method = "DELETE"
       THEN "deleteSession"
  ELSE "notFound"

\* fetch(request, env) from the request to its response, with the table as
\* it is when the statement of the request runs and now the time the
\* handler reads.
fetch(db, request, now) ==
  CASE Handler(request) = "preflight" -> [db |-> db, response |-> Response(200, Null)]
    [] Handler(request) = "unauthenticated" ->
         [db |-> db, response |-> Response(401, [error |-> "User not authenticated"])]
    [] Handler(request) = "saveSession" ->
         saveSession(db, request.body, request.userId, now)
    [] Handler(request) = "loadSessions" -> loadSessions(db, request.userId)
    [] Handler(request) = "loadSession" ->
         loadSession(db, request.userId, request.path[2])
    [] Handler(request) = "updateSession" ->
         updateSession(db, request.body, request.userId, request.path[2], now)
    [] Handler(request) = "deleteSession" ->
         deleteSession(db, request.userId, request.path[2])
    [] Handler(request) = "notFound" ->
         [db |-> db, response |-> Response(404, [error |-> "Endpoint not found"])]

\* fetch returns without an await.
AnswersAtOnce(request) ==
  Handler(request) \in {"preflight", "unauthenticated", "notFound"}

\* The handler first awaits request.json().
AwaitsBody(request) == Handler(request) \in {"saveSession", "updateSession"}

\* saveSession returns 400 once it has the body, before it reads the time.
MissingFields(request) ==
  /\ Handler(request) = "saveSession"
  /\ \E key \in {"sessionId", "gameData", "difficulty", "status"} :
       key \notin DOMAIN request.body

\* A request in flight: pc is the await its handler is suspended at
\* ("json": request.json(); "run": the statement, not yet run by the
\* database; "answer": the statement has run, its result is not yet
\* delivered), now the time it has read, result the response it will give.
Suspended(request, pc, now, result) ==
  [request |-> request, pc |-> pc, now |-> now, result |-> result]

NoResult == Response(0, Null)

\* The sequence without its i-th element.
Remove(seq, i) == SubSeq(seq, 1, i - 1) \o SubSeq(seq, i + 1, Len(seq))

\* The game data, statuses and scores of the requests of a run.
GameDatas == {[id |-> sid, turnCount |-> t] : sid \in SessionIds, t \in {3, 7}}

\* The bodies the application posts (useGameSave.saveSession), with and
\* without a score, and one body without difficulty.
PostBodies ==
  {[sessionId |-> g.id, gameData |-> g, difficulty |-> "medium", status |-> st,
    score |-> sc, turnCount |-> g.turnCount, playerName |-> "Jogador"] :
     g \in GameDatas, st \in {"EM_JOGO", "DERROTA"}, sc \in {1170}}
  \cup {[sessionId |-> g.id, gameData |-> g, difficulty |-> "medium", status |-> "EM_JOGO",
         playerName |-> "Jogador"] : g \in GameDatas}
  \cup {[sessionId |-> g.id, gameData |-> g, status |-> "EM_JOGO",
         playerName |-> "Jogador"] : g \in GameDatas}

\* The bodies of PUT /sessions/:id.
PutBodies ==
  {[gameData |-> g, status |-> "VITORIA", score |-> 1250, turnCount |-> g.turnCount] :
     g \in GameDatas}

NoBody == [none |-> TRUE]

Request(method, path, userId, body) ==
  [method |-> method, path |-> path, userId |-> userId, body |-> body]

\* The requests of a run.
Requests ==
  {Request("POST", <<"sessions">>, u, b) : u \in Users, b \in PostBodies}
  \cup {Request("PUT", <<"sessions", sid>>, u, b) : u \in Users, sid \in SessionIds, b \in PutBodies}
  \cup {Request("DELETE", <<"sessions", sid>>, u, NoBody) : u \in Users, sid \in SessionIds}
  \cup {Request("GET", <<"sessions", sid>>, u, NoBody) : u \in Users, sid \in SessionIds}
  \cup {Request("GET", <<"sessions">>, u, NoBody) : u \in Users}
  \cup {Request("DELETE", <<"sessions", sid>>, Null, NoBody) : sid \in SessionIds}
  \cup {Request("OPTIONS", <<"sessions">>, Null, NoBody),
        Request("PATCH", <<"sessions">>, "A", NoBody)}

(***************************************************************************)
(* The state machine: a caller holding one session and calling the engine  *)
(***************************************************************************)

\* Turn counts the session of a run starts with.
StartTurns == {0, 4, 5, 6}

\* The states the session of a run starts with: that of a new game, and
\* that of a game in which "heat-stroke" has been played (temperature 40.5,
\* critical).
StartStates ==
  {InitialState,
   ForEachEffect(InitialState, Effects("heat-stroke"), <<>>, "heat-stroke").state}

\* The piles the session of a run starts with (pairwise disjoint).
PileSetups ==
  {[hand |-> <<"insulin", "buffer", "rest">>, deck |-> <<"overdose", "acidosis-attack">>, discardPile |-> <<>>],
   [hand |-> <<"insulin">>, deck |-> <<>>, discardPile |-> <<"heat-stroke", "zero">>],
   [hand |-> <<>>, deck |-> <<>>, discardPile |-> <<>>]}

VARIABLES
  objs,         \* the HomeostaticState objects, by reference
  gameSession,  \* the session the caller holds (the last one returned)
  op,           \* the last call: "init", "processTurn", "processTurn_throw", "drawCard"
  card,         \* the card played by the last processTurn
  input,        \* the session passed to the last call, as it was before the call
  inputState,   \* the state object of that session, as it was before the call
  arg,          \* the session object passed to the last call, as it is after the call
  history,      \* the history list returned by the last processTurn
  drawnCard,    \* the card returned by the last drawCard
  returnedScore,\* the number returned by the last getScore
  saved,        \* the request bodies of the last saveSession (none: <<>>)
  currentScreen,\* the screen the application shows
  timer,        \* whether a setTimeout callback is pending
  calls,        \* number of calls made
  db,           \* the rows of the backend's table game_sessions
  request,      \* the last request the backend worker served
  response,     \* its response
  showTutorial, \* whether the tutorial overlay is open
  savesInFlight, \* the handlers suspended at their await of saveSession
  inFlight,     \* the requests the worker has received and not answered
  clock         \* the number of times the worker has read the time

vars == <<objs, gameSession, op, card, input, inputState, arg, history, drawnCard,
          returnedScore, saved, currentScreen, timer, calls, db, request, response, inFlight, clock,
          showTutorial, savesInFlight, inFlight, clock>>

\* The backend before any request of the run.
BackendIdle ==
  /\ db = {}
  /\ request = Request("OPTIONS", <<"sessions">>, Null, NoBody)
  /\ response = Response(200, Null)
  /\ showTutorial = FALSE
  /\ savesInFlight = <<>>
  /\ inFlight = <<>>
  /\ clock = 0

State(session) == objs[session.currentState]

Init ==
  /\ \E st \in StartStates :
       /\ objs = [r \in {1} |-> st]
       /\ inputState = st
  /\ \E t \in StartTurns, p \in PileSetups :
       gameSession = [id |-> DateNow(0), playerId |-> "player-1", difficulty |-> "medium",
                      status |-> "IN_PROGRESS", currentState |-> 1,
                      hand |-> p.hand, deck |-> p.deck, discardPile |-> p.discardPile,
                      score |-> 0, turnCount |-> t]
  /\ op = "init"
  /\ card = NoCard
  /\ input = gameSession
  /\ arg = gameSession
  /\ history = <<>>
  /\ drawnCard = NoCard
  /\ returnedScore = 0
  /\ saved = <<>>
  /\ currentScreen = "game"
  /\ timer = FALSE
  /\ calls = 0
  /\ BackendIdle

ProcessTurn(playedCard) ==
  /\ calls < MaxCalls
  /\ \E r \in {processTurn(gameSession, playedCard, objs)} :
         /\ objs' = r.objs
         /\ gameSession' = r.newSession
         /\ op' = IF r.threw THEN "processTurn_throw" ELSE "processTurn"
         /\ history' = IF r.threw THEN <<>> ELSE r.history
         /\ arg' = r.session
  /\ card' = playedCard
  /\ input' = gameSession
  /\ inputState' = State(gameSession)
  /\ drawnCard' = NoCard
  /\ calls' = calls + 1
  /\ UNCHANGED <<returnedScore, saved, currentScreen, timer, db, request, response, inFlight, clock, showTutorial, savesInFlight>>

DrawCard ==
  /\ calls < MaxCalls
  /\ \E r \in {drawCard(gameSession)} :
         /\ gameSession' = r.newSession
         /\ drawnCard' = r.drawnCard
         /\ arg' = r.session
  /\ op' = "drawCard"
  /\ card' = NoCard
  /\ input' = gameSession
  /\ inputState' = State(gameSession)
  /\ history' = <<>>
  /\ calls' = calls + 1
  /\ UNCHANGED <<objs, returnedScore, saved, currentScreen, timer, db, request, response, inFlight, clock, showTutorial, savesInFlight>>

Next ==
  \/ \E playedCard \in Cards : ProcessTurn(playedCard)
  \/ DrawCard

Spec == Init /\ [][Next]_vars

TypeOK ==
  /\ gameSession.status \in {"IN_PROGRESS", "VICTORY", "DEFEAT"}
  /\ gameSession.turnCount \in Nat
  /\ \A s \in Systems : State(gameSession)[s].trend \in {"stable", "increasing", "decreasing"}

(***************************************************************************)
(* The score function on its own: a caller holding one session and calling *)
(* getScore on it                                                          *)
(***************************************************************************)

\* The elements of a sequence.
Range(seq) == {seq[i] : i \in DOMAIN seq}

\* The systems the effects of a card name.
Targets(c) == {Effects(c)[i].targetSystem : i \in DOMAIN Effects(c)}

\* Turn counts of the sessions getScore is called on: a new game, the 10 of
\* the worked example, and those around which the score reaches 0
\* (1000 - 10 * turnCount - 150 at 85, 1000 - 10 * turnCount + 300 at 130).
ScoreTurns == {0, 10, 85, 86, 100, 130, 131}

\* The states of those sessions: the start states after one played card.
ScoreStates ==
  {ForEachEffect(st, Effects(c), <<>>, c).state :
     st \in StartStates, c \in {k \in Cards : Targets(k) \subseteq Systems}}

ScoreInit ==
  /\ \E st \in ScoreStates :
       /\ objs = [r \in {1} |-> st]
       /\ inputState = st
  /\ \E t \in ScoreTurns :
       gameSession = [status |-> "IN_PROGRESS", currentState |-> 1,
                      hand |-> <<>>, deck |-> <<>>, discardPile |-> <<>>,
                      score |-> 0, turnCount |-> t]
  /\ op = "init"
  /\ card = NoCard
  /\ input = gameSession
  /\ arg = gameSession
  /\ history = <<>>
  /\ drawnCard = NoCard
  /\ returnedScore = 0
  /\ saved = <<>>
  /\ currentScreen = "game"
  /\ timer = FALSE
  /\ calls = 0
  /\ BackendIdle

GetScore ==
  /\ calls < MaxCalls
  /\ returnedScore' = getScore(gameSession, objs)
  /\ op' = "getScore"
  /\ input' = gameSession
  /\ inputState' = State(gameSession)
  /\ arg' = gameSession
  /\ calls' = calls + 1
  /\ UNCHANGED <<objs, gameSession, card, history, drawnCard, saved, currentScreen, timer,
                 db, request, response, inFlight, clock, showTutorial, savesInFlight>>

ScoreNext == GetScore

ScoreSpec == ScoreInit /\ [][ScoreNext]_vars

(***************************************************************************)
(* The application: its screens, the active game session, the handlers of  *)
(* the menu, of the game screen, of the results screen and of the          *)
(* tutorial, the saves awaiting their response                             *)
(***************************************************************************)

\* The application as constructed: the menu, no session.
MenuInit ==
  /\ objs = <<>>
  /\ gameSession = NoSession
  /\ saved = <<>>
  /\ inputState = NoSession
  /\ currentScreen = "menu"

\* A game the player has reached: started at one of the difficulties of
\* the menu, played as one of AppRuns, every save answered.
GameInit ==
  \E difficulty \in GameDifficulties, run \in AppRuns :
    \E new \in {createNewGameSession(difficulty, DateNow(0))} :
      \E g \in {AfterSteps([gameSession |-> new.gameSession, objs |-> new.objs,
                             saved |-> <<>>], run)} :
        /\ objs = g.objs
        /\ gameSession = g.gameSession
        /\ saved = g.saved
        /\ inputState = g.objs[g.gameSession.currentState]
        /\ currentScreen = new.currentScreen

AppInit ==
  /\ MenuInit \/ GameInit
  /\ op = "init"
  /\ card = NoCard
  /\ input = gameSession
  /\ arg = gameSession
  /\ history = <<>>
  /\ drawnCard = NoCard
  /\ returnedScore = 0
  /\ timer = FALSE
  /\ calls = 0
  /\ BackendIdle

\* The state of the active session, if there is one.
PriorState == IF HasSession(gameSession) THEN State(gameSession) ELSE NoSession

\* What a handler leaves of the record of the last call.
Called(name) ==
  /\ op' = name
  /\ input' = gameSession
  /\ inputState' = PriorState
  /\ calls' = calls + 1

\* A handler called on a session that has ended returns at once.
HandlerReturns(name) ==
  /\ op' = name
  /\ UNCHANGED <<objs, gameSession, saved, savesInFlight>>
  /\ history' = <<>>
  /\ drawnCard' = NoCard
  /\ arg' = gameSession

\* The player plays a card of the hand shown (PlayerHand: cards =
\* session.hand): handlePlayCard up to its await.
HandlePlayCard(playedCard) ==
  /\ currentScreen = "game"
  /\ calls < MaxCalls
  /\ \E i \in DOMAIN gameSession.hand : gameSession.hand[i] = playedCard
  /\ IF gameSession.status # "IN_PROGRESS"
     THEN HandlerReturns("handlePlayCard_return")
     ELSE \E r \in {handlePlayCard(gameSession, playedCard, objs)} :
            /\ op' = "handlePlayCard"
            /\ objs' = r.objs
            /\ gameSession' = r.gameSession
            /\ history' = r.history
            /\ saved' = r.saved
            /\ savesInFlight' = Append(savesInFlight, r.awaiting)
            /\ drawnCard' = NoCard
            /\ arg' = gameSession
  /\ card' = playedCard
  /\ input' = gameSession
  /\ inputState' = State(gameSession)
  /\ calls' = calls + 1
  /\ UNCHANGED <<returnedScore, currentScreen, timer, db, request, response, inFlight, clock, showTutorial>>

HandleDrawCard ==
  /\ currentScreen = "game"
  /\ calls < MaxCalls
  /\ IF gameSession.status # "IN_PROGRESS"
     THEN HandlerReturns("handleDrawCard_return")
     ELSE \E r \in {handleDrawCard(gameSession)} :
            /\ op' = "handleDrawCard"
            /\ gameSession' = r.newSession
            /\ drawnCard' = r.drawnCard
            /\ arg' = r.session
            /\ history' = <<>>
            /\ UNCHANGED <<objs, saved, savesInFlight>>
  /\ card' = NoCard
  /\ input' = gameSession
  /\ inputState' = State(gameSession)
  /\ calls' = calls + 1
  /\ UNCHANGED <<returnedScore, currentScreen, timer, db, request, response, inFlight, clock, showTutorial>>

\* The player ends the turn; event is the one generateRandomEvent draws:
\* handleEndTurn up to its await.
HandleEndTurn(event) ==
  /\ currentScreen = "game"
  /\ calls < MaxCalls
  /\ \E r \in {handleEndTurn(gameSession, event, objs)} :
       /\ objs' = r.objs
       /\ gameSession' = r.gameSession
       /\ saved' = r.saved
       /\ savesInFlight' = Append(savesInFlight, r.awaiting)
  /\ op' = "handleEndTurn"
  /\ card' = NoCard
  /\ input' = gameSession
  /\ inputState' = State(gameSession)
  /\ arg' = gameSession
  /\ history' = <<>>
  /\ drawnCard' = NoCard
  /\ calls' = calls + 1
  /\ UNCHANGED <<returnedScore, currentScreen, timer, db, request, response, inFlight, clock, showTutorial>>

\* saveSession returns to the i-th of the suspended handlers, which runs to
\* its end: handlePlayCard sets the timer if its session had ended.
SaveResponse(i) ==
  /\ i \in DOMAIN savesInFlight
  /\ savesInFlight' = SubSeq(savesInFlight, 1, i - 1)
                        \o SubSeq(savesInFlight, i + 1, Len(savesInFlight))
  /\ timer' = (timer \/ SetsTimeout(savesInFlight[i]))
  /\ op' = "saveResponse"
  /\ UNCHANGED <<objs, gameSession, card, input, inputState, arg, history, drawnCard,
                 returnedScore, saved, currentScreen, calls, db, request, response, inFlight, clock,
                 showTutorial>>

\* The callback handlePlayCard set with setTimeout (2 s after the save of
\* a card that ended the game was answered) shows the results screen.
ShowResults ==
  /\ timer
  /\ timer' = FALSE
  /\ currentScreen' = "results"
  /\ op' = "showResults"
  /\ UNCHANGED <<objs, gameSession, card, input, inputState, arg, history, drawnCard,
                 returnedScore, saved, calls, db, request, response, inFlight, clock, showTutorial, savesInFlight>>

\* A handler that calls createNewGameSession(difficulty, ...).
NewGame(name, difficulty) ==
  /\ calls < MaxCalls
  /\ \E g \in {createNewGameSession(difficulty, DateNow(calls + 1))} :
       /\ objs' = g.objs
       /\ gameSession' = g.gameSession
       /\ currentScreen' = g.currentScreen
  /\ Called(name)
  /\ card' = NoCard
  /\ arg' = gameSession
  /\ history' = <<>>
  /\ drawnCard' = NoCard
  /\ UNCHANGED <<returnedScore, saved, timer, db, request, response, inFlight, clock, savesInFlight>>

\* A handler that only sets the screen, the session or the tutorial flag.
Navigate(name, screen, session, tutorial) ==
  /\ calls < MaxCalls
  /\ currentScreen' = screen
  /\ gameSession' = session
  /\ showTutorial' = tutorial
  /\ Called(name)
  /\ card' = NoCard
  /\ arg' = gameSession
  /\ history' = <<>>
  /\ drawnCard' = NoCard
  /\ UNCHANGED <<objs, returnedScore, saved, timer, db, request, response, inFlight, clock, savesInFlight>>

\* handleReplay, the onReplay of the results screen.
HandleReplay ==
  /\ currentScreen = "results"
  /\ HasSession(gameSession)
  /\ NewGame("handleReplay", gameSession.difficulty)
  /\ UNCHANGED showTutorial

\* handleNextLevel, the onNextLevel of the results screen, whose button is
\* shown for a session won.
HandleNextLevel ==
  /\ currentScreen = "results"
  /\ HasSession(gameSession)
  /\ gameSession.status = "VICTORY"
  /\ NewGame("handleNextLevel", nextDifficulty(gameSession))
  /\ UNCHANGED showTutorial

\* handleBackToMenu, of the results, settings and leaderboard screens.
HandleBackToMenu ==
  /\ currentScreen \in {"results", "settings", "leaderboard"}
  /\ Navigate("handleBackToMenu", "menu", NoSession, showTutorial)

\* The overlay of the open tutorial covers the screen.
MenuShown == currentScreen = "menu" /\ ~showTutorial

\* handleStartGame, the onStartGame of the menu, with the difficulty
\* selected there.
HandleStartGame(difficulty) ==
  /\ MenuShown
  /\ NewGame("handleStartGame", difficulty)
  /\ UNCHANGED showTutorial

\* onOpenTutorial of the menu.
OpenTutorial ==
  /\ MenuShown
  /\ Navigate("onOpenTutorial", currentScreen, gameSession, TRUE)

\* onOpenSettings of the menu.
OpenSettings ==
  /\ MenuShown
  /\ Navigate("onOpenSettings", "settings", gameSession, showTutorial)

\* onViewLeaderboard of the menu.
ViewLeaderboard ==
  /\ MenuShown
  /\ Navigate("onViewLeaderboard", "leaderboard", gameSession, showTutorial)

\* onClose of the tutorial (skipped).
TutorialClose ==
  /\ showTutorial
  /\ Navigate("onClose", currentScreen, gameSession, FALSE)

\* The tutorial completed: onComplete (then onClose, which sets the flag
\* already set).
TutorialComplete ==
  /\ showTutorial
  /\ NewGame("onComplete", "easy")
  /\ showTutorial' = FALSE

AppNext ==
  \/ \E playedCard \in Range(ActionDeck) : HandlePlayCard(playedCard)
  \/ HandleDrawCard
  \/ \E event \in Events : HandleEndTurn(event)
  \/ \E i \in 1..MaxCalls : SaveResponse(i)
  \/ ShowResults
  \/ HandleReplay
  \/ HandleNextLevel
  \/ HandleBackToMenu
  \/ \E difficulty \in GameDifficulties : HandleStartGame(difficulty)
  \/ OpenTutorial
  \/ OpenSettings
  \/ ViewLeaderboard
  \/ TutorialClose
  \/ TutorialComplete

AppSpec == AppInit /\ [][AppNext]_vars

(***************************************************************************)
(* The sessions of the engine's test suite: a caller holding a session as  *)
(* the suite builds it and calling the engine                              *)
(***************************************************************************)

\* maxTurns of the suite's mockSession.
maxTurns == 20

\* GameStatus.ACTIVE, GameStatus.COMPLETED, GameStatus.FAILED: the enum has
\* no such members.
Undefined == "undefined"

\* A biomarker as the suite writes it: normalRange is an object, there is
\* no criticalRange (id, name, unit, status and lastUpdate are left out).
MockBiomarker(value, min, max) ==
  [currentValue |-> value, normalRange |-> [min |-> min, max |-> max],
   trend |-> "stable", isCritical |-> FALSE]

\* currentState of mockSession.
MockState ==
  [glucose |-> MockBiomarker(Dec(9000), Dec(7000), Dec(11000)),
   ph |-> MockBiomarker(Dec(740), Dec(735), Dec(745)),
   temperature |-> MockBiomarker(Dec(3700), Dec(3650), Dec(3750))]

\* The states of the suite's sessions: that of mockSession, and those of its
\* two criticalSession (glucose 40 flagged critical; glucose and pH flagged
\* critical).
MockStates ==
  {MockState,
   [MockState EXCEPT !.glucose.isCritical = TRUE, !.glucose.currentValue = Dec(4000)],
   [MockState EXCEPT !.glucose.isCritical = TRUE, !.ph.isCritical = TRUE]}

\* Turn counts of the suite's sessions: mockSession, sessionNearEnd, endSession.
MockTurns == {1, 19, 20}

\* mockSession as beforeEach leaves it, with the given turn count: the hand
\* holds mockCard.  startTime is left out.
mockSession(turnCount) ==
  [id |-> "test-session", playerId |-> "test-player", endTime |-> Null,
   status |-> Undefined, difficulty |-> "medium", selectedSystem |-> "glucose",
   turnCount |-> turnCount, maxTurns |-> maxTurns, score |-> 1000,
   currentState |-> 1,
   hand |-> <<"mockCard">>, deck |-> <<>>, discardPile |-> <<>>,
   playedCards |-> <<>>, events |-> <<>>]

MockInit ==
  /\ \E st \in MockStates :
       /\ objs = [r \in {1} |-> st]
       /\ inputState = st
  /\ \E t \in MockTurns : gameSession = mockSession(t)
  /\ op = "init"
  /\ card = NoCard
  /\ input = gameSession
  /\ arg = gameSession
  /\ history = <<>>
  /\ drawnCard = NoCard
  /\ returnedScore = 0
  /\ saved = <<>>
  /\ currentScreen = "game"
  /\ timer = FALSE
  /\ calls = 0
  /\ BackendIdle

\* The suite's calls of processTurn, and drawCard.
MockNext ==
  \/ \E playedCard \in MockCards : ProcessTurn(playedCard)
  \/ DrawCard

MockSpec == MockInit /\ [][MockNext]_vars

(***************************************************************************)
(* The backend worker: requests in flight, each at one of its awaits       *)
(***************************************************************************)

\* The tables the runs start with: the empty table, and the table after
\* user A has saved a game in progress.
StartTables ==
  {{},
   saveSession({}, [sessionId |-> "1700000000001",
                    gameData |-> [id |-> "1700000000001", turnCount |-> 3],
                    difficulty |-> "medium", status |-> "EM_JOGO", score |-> 1170,
                    turnCount |-> 3, playerName |-> "Jogador"], "A", 0).db}

BackendInit ==
  /\ \E g \in {createNewGameSession("medium", DateNow(0))} :
       /\ objs = g.objs
       /\ gameSession = g.gameSession
       /\ currentScreen = g.currentScreen
       /\ inputState = g.objs[g.gameSession.currentState]
  /\ op = "init"
  /\ card = NoCard
  /\ input = gameSession
  /\ arg = gameSession
  /\ history = <<>>
  /\ drawnCard = NoCard
  /\ returnedScore = 0
  /\ saved = <<>>
  /\ timer = FALSE
  /\ calls = 0
  /\ db \in StartTables
  /\ request = Request("OPTIONS", <<"sessions">>, Null, NoBody)
  /\ response = Response(200, Null)
  /\ showTutorial = FALSE
  /\ savesInFlight = <<>>
  /\ inFlight = <<>>
  /\ clock = 0

\* A request arrives: fetch runs to its first await, or to its end if it
\* has none.
Receive(req) ==
  /\ calls < MaxCalls
  /\ IF AnswersAtOnce(req)
     THEN /\ request' = req
          /\ response' = fetch(db, req, 0).response
          /\ UNCHANGED inFlight
     ELSE /\ inFlight' = Append(inFlight,
                           Suspended(req, IF AwaitsBody(req) THEN "json" ELSE "run",
                                     0, NoResult))
          /\ UNCHANGED <<request, response>>
  /\ op' = "fetch"
  /\ calls' = calls + 1
  /\ UNCHANGED <<objs, gameSession, card, input, inputState, arg, history, drawnCard,
                 returnedScore, saved, currentScreen, timer, showTutorial, savesInFlight,
                 db, clock>>

\* request.json() resolves: saveSession answers 400 to a body lacking a
\* field; otherwise the handler reads the time (each reading is later
\* than the last) and hands its statement to the database.
ReadBody(i) ==
  /\ i \in DOMAIN inFlight
  /\ inFlight[i].pc = "json"
  /\ IF MissingFields(inFlight[i].request)
     THEN /\ request' = inFlight[i].request
          /\ response' = fetch(db, inFlight[i].request, 0).response
          /\ inFlight' = Remove(inFlight, i)
          /\ UNCHANGED clock
     ELSE /\ clock' = clock + 1
          /\ inFlight' = [inFlight EXCEPT ![i].pc = "run", ![i].now = clock + 1]
          /\ UNCHANGED <<request, response>>
  /\ op' = "json"
  /\ UNCHANGED <<objs, gameSession, card, input, inputState, arg, history, drawnCard,
                 returnedScore, saved, currentScreen, timer, calls, showTutorial,
                 savesInFlight, db>>

\* The database runs the statement of a request.
RunStatement(i) ==
  /\ i \in DOMAIN inFlight
  /\ inFlight[i].pc = "run"
  /\ \E r \in {fetch(db, inFlight[i].request, inFlight[i].now)} :
       /\ db' = r.db
       /\ inFlight' = [inFlight EXCEPT ![i].pc = "answer", ![i].result = r.response]
  /\ op' = "run"
  /\ UNCHANGED <<objs, gameSession, card, input, inputState, arg, history, drawnCard,
                 returnedScore, saved, currentScreen, timer, calls, showTutorial,
                 savesInFlight, request, response, clock>>

\* The handler resumes with the result of its statement and answers.
Answer(i) ==
  /\ i \in DOMAIN inFlight
  /\ inFlight[i].pc = "answer"
  /\ request' = inFlight[i].request
  /\ response' = inFlight[i].result
  /\ inFlight' = Remove(inFlight, i)
  /\ op' = "answer"
  /\ UNCHANGED <<objs, gameSession, card, input, inputState, arg, history, drawnCard,
                 returnedScore, saved, currentScreen, timer, calls, showTutorial,
                 savesInFlight, db, clock>>

BackendNext ==
  \/ \E req \in Requests : Receive(req)
  \/ \E i \in 1..MaxCalls : ReadBody(i)
  \/ \E i \in 1..MaxCalls : RunStatement(i)
  \/ \E i \in 1..MaxCalls : Answer(i)

BackendSpec == BackendInit /\ [][BackendNext]_vars

(***************************************************************************)
(* Properties                                                              *)
(***************************************************************************)

\* The last call was a processTurn that returned (gameSession is the
\* session it returned, input/inputState the session it was given).
Returned == op = "processTurn"

CriticalCount(state) == Cardinality({s \in Systems : state[s].isCritical})

InNormalRange(b) ==
  /\ ~FLess(b.currentValue, b.normalRange[1])
  /\ ~FLess(b.normalRange[2], b.currentValue)

OutsideCriticalRange(b) ==
  \/ FLess(b.currentValue, b.criticalRange[1])
  \/ FLess(b.criticalRange[2], b.currentValue)

AllInNormalRange(state) == \A s \in Systems : InNormalRange(state[s])

\* C1: the session processTurn returns is DEFEAT exactly when at least two
\* of its three biomarkers are flagged critical after the card's effects.
C1_DefeatIffTwoCritical ==
  Returned => (gameSession.status = "DEFEAT" <=> CriticalCount(State(gameSession)) >= 2)

\* Scenario D: glucose and pH critical, temperature not, returned as DEFEAT.
C1_Witness ==
  /\ Returned
  /\ gameSession.status = "DEFEAT"
  /\ State(gameSession).glucose.isCritical
  /\ State(gameSession).ph.isCritical
  /\ ~State(gameSession).temperature.isCritical

\* C2 (as claimed): from turnCount 5 with all biomarkers normal before and
\* after the card, processTurn returns turnCount 6 and status VICTORY.
C2_VictoryOnSixthTurn ==
  (/\ Returned
   /\ input.turnCount = 5
   /\ AllInNormalRange(inputState)
   /\ AllInNormalRange(State(gameSession)))
  => (gameSession.turnCount = 6 /\ gameSession.status = "VICTORY")

\* C3: a returned session is VICTORY only if all its biomarkers are
\* non-critical and within their normal range and its turnCount exceeds 5.
C3_VictoryOnlyIfStable ==
  (Returned /\ gameSession.status = "VICTORY")
  => /\ \A s \in Systems : /\ ~State(gameSession)[s].isCritical
                           /\ InNormalRange(State(gameSession)[s])
     /\ gameSession.turnCount > 5

C3_Witness ==
  /\ Returned
  /\ gameSession.status = "VICTORY"
  /\ AllInNormalRange(State(gameSession))

\* C4 (as claimed): after processTurn the session passed in is as it was
\* before the call, state object included, and the returned session has a
\* state object of its own.
C4_InputUntouched ==
  Returned => /\ arg = input
              /\ objs[arg.currentState] = inputState
              /\ gameSession.currentState # arg.currentState

\* C5: the returned turnCount is the input turnCount plus exactly 1.
C5_TurnCountPlusOne ==
  Returned => gameSession.turnCount = input.turnCount + 1

\* A card without effects was played at a finished game's turn count.
C5_Witness ==
  /\ Returned
  /\ card = "rest"
  /\ Effects(card) = <<>>
  /\ gameSession.turnCount = input.turnCount + 1
  /\ gameSession.status = "VICTORY"

\* The binary64 x is a whole number (of magnitude below 2^16).
IsWhole(x) == x[3] = 0 /\ x[4] = 0 /\ x[2] % 2^11 = 0

\* The value of system s after the effects, added one after the other in
\* list order with the number addition of the engine.
RECURSIVE AddInOrder(_, _, _)
AddInOrder(value, effects, s) ==
  IF effects = <<>> THEN value
  ELSE AddInOrder(IF Head(effects).targetSystem = s
                  THEN FAdd(value, Head(effects).value) ELSE value,
                  Tail(effects), s)

\* The sum of the values of the effects targeting system s, from 0.
RECURSIVE SumOfEffects(_, _)
SumOfEffects(effects, s) ==
  IF effects = <<>> THEN Dec(0)
  ELSE LET rest == SumOfEffects(SubSeq(effects, 1, Len(effects) - 1), s)
           last == effects[Len(effects)]
       IN  IF last.targetSystem = s THEN FAdd(rest, last.value) ELSE rest

C7_CriticalIffOutside ==
  Returned => \A s \in Targets(card) :
    State(gameSession)[s].isCritical <=> OutsideCriticalRange(State(gameSession)[s])

\* glucose exactly on the lower critical bound 50: not critical
C7_Witness ==
  /\ Returned
  /\ card = "hypoglycemic-shock"
  /\ State(gameSession).glucose.currentValue = State(gameSession).glucose.criticalRange[1]
  /\ ~State(gameSession).glucose.isCritical

\* The last history entry about system s.
LastEntry(h, s) ==
  h[CHOOSE i \in DOMAIN h : h[i].system = s /\ \A j \in DOMAIN h : h[j].system = s => j <= i]

\* C8: the trend of a biomarker an effect was applied to is stable when
\* |newValue - oldValue| < 0.1, increasing when the difference is >= 0.1
\* and decreasing when it is <= -0.1 (old and new value of its last effect).
C8_TrendThreshold ==
  Returned => \A s \in Targets(card) :
    LET e == LastEntry(history, s)
        delta == FSub(e.newValue, e.oldValue)
        trend == State(gameSession)[s].trend
    IN  /\ FLess(FAbs(delta), Dec(10)) => trend = "stable"
        /\ ~FLess(delta, Dec(10)) => trend = "increasing"
        /\ ~FLess(Dec(-10), delta) => trend = "decreasing"

\* a difference of exactly 0.1 (from 0 to 0.1) is increasing
C8_Witness ==
  /\ Returned
  /\ card = "tenthUp"
  /\ FSub(history[2].newValue, history[2].oldValue) = Dec(10)
  /\ State(gameSession).glucose.trend = "increasing"

\* The value of system s after the first n effects of a card.
ValueAfter(state, effects, n, s) == AddInOrder(state[s].currentValue, SubSeq(effects, 1, n), s)

\* C9 (amended): one history entry per effect, in effect order; entry i
\* names the system of effect i, its oldValue is that system's value after
\* the effects before it, its change is the effect's value and its newValue
\* is oldValue + change in the engine's arithmetic.
C9_HistoryPerEffect ==
  Returned =>
    /\ Len(history) = Len(Effects(card))
    /\ \A i \in DOMAIN history :
         /\ history[i].system = Effects(card)[i].targetSystem
         /\ history[i].oldValue = ValueAfter(inputState, Effects(card), i - 1, history[i].system)
         /\ history[i].change = Effects(card)[i].value
         /\ history[i].newValue = FAdd(history[i].oldValue, history[i].change)

\* C9 (as claimed): moreover newValue - oldValue == change in every entry.
C9_DifferenceIsChange ==
  Returned =>
    /\ C9_HistoryPerEffect
    /\ \A i \in DOMAIN history :
         FSub(history[i].newValue, history[i].oldValue) = history[i].change

\* two effects, two entries; pH 7.4 + 0.05 is 7.45, and 7.45 - 7.4 is not 0.05
C9_Witness ==
  /\ Returned
  /\ card = "buffer"
  /\ Len(history) = 2
  /\ history[2].oldValue = Dec(740)
  /\ history[2].newValue = Dec(745)
  /\ FSub(history[2].newValue, history[2].oldValue) # history[2].change

AllCards(session) == session.hand \o session.deck \o session.discardPile

\* Number of occurrences of card c in the three piles.
Copies(session, c) == Cardinality({i \in DOMAIN AllCards(session) : AllCards(session)[i] = c})

PilesDisjoint(session) ==
  /\ Range(session.hand) \cap Range(session.deck) = {}
  /\ Range(session.hand) \cap Range(session.discardPile) = {}
  /\ Range(session.deck) \cap Range(session.discardPile) = {}

\* pairwise disjoint piles, no card twice in a pile
PilesDistinct(session) == \A c \in Cards : Copies(session, c) <= 1

SameCards(s1, s2) == \A c \in Cards : Copies(s1, c) = Copies(s2, c)

\* C10 (as claimed): any drawCard or processTurn call takes a session with
\* pairwise disjoint piles to one with pairwise disjoint piles holding
\* exactly the same cards.
C10_PilesConserved ==
  [][PilesDisjoint(gameSession)
       => PilesDisjoint(gameSession') /\ SameCards(gameSession, gameSession')]_vars

\* C10 (amended): this holds of drawCard, and of processTurn when the card
\* played is in the hand, on sessions holding no card twice.
C10_PilesConservedInHand ==
  [][(/\ PilesDistinct(gameSession)
      /\ op' = "processTurn" => card' \in Range(gameSession.hand))
       => PilesDistinct(gameSession') /\ SameCards(gameSession, gameSession')]_vars

\* a card of the hand was played: it is now the discard pile, no card twice
C10_Witness ==
  /\ Returned
  /\ card \in Range(input.hand)
  /\ input.deck # <<>>
  /\ input.discardPile = <<>>
  /\ gameSession.discardPile = <<card>>
  /\ PilesDistinct(gameSession)

Drew == op = "drawCard"

Occurrences(seq, c) == Cardinality({i \in DOMAIN seq : seq[i] = c})

\* The sequence seq without its element at position i.
Without(seq, i) == SubSeq(seq, 1, i - 1) \o SubSeq(seq, i + 1, Len(seq))

\* C11: when the played card is in the hand (once), processTurn returns the
\* hand without that card, the other cards in their order, the discard pile
\* with the played card appended at its end, and the deck unchanged.
C11_MovesPlayedCard ==
  (Returned /\ Occurrences(input.hand, card) = 1) =>
    /\ \E i \in DOMAIN input.hand :
         /\ input.hand[i] = card
         /\ gameSession.hand = Without(input.hand, i)
    /\ gameSession.discardPile = input.discardPile \o <<card>>
    /\ gameSession.deck = input.deck

C11_Witness ==
  /\ Returned
  /\ card = "buffer"
  /\ input.hand = <<"insulin", "buffer", "rest">>
  /\ gameSession.hand = <<"insulin", "rest">>
  /\ gameSession.discardPile = <<"buffer">>

\* C12: playing a card that is not in the hand raises no error: the effects
\* are applied, the turn is counted, the hand is returned as it was and the
\* card is appended to the discard pile.
C12_NotInHandTolerated ==
  (/\ op \in {"processTurn", "processTurn_throw"}
   /\ Occurrences(input.hand, card) = 0
   /\ Targets(card) \subseteq Systems) =>
    /\ op = "processTurn"
    /\ \A s \in Systems :
         State(gameSession)[s].currentValue =
           AddInOrder(inputState[s].currentValue, Effects(card), s)
    /\ Len(history) = Len(Effects(card))
    /\ gameSession.turnCount = input.turnCount + 1
    /\ gameSession.hand = input.hand
    /\ gameSession.discardPile = input.discardPile \o <<card>>

C12_Witness ==
  /\ Returned
  /\ card = "overdose"
  /\ input.hand = <<"insulin", "buffer", "rest">>
  /\ gameSession.hand = input.hand
  /\ gameSession.discardPile = <<"overdose">>
  /\ State(gameSession).glucose.currentValue = Dec(4000)

\* C13: drawCard on an empty deck and a discard pile of n > 0 cards returns
\* the former discard pile without its first card as the deck (order kept),
\* an empty discard pile, the hand with that first card appended, and that
\* card as drawnCard.
C13_ReshuffleThenDraw ==
  (Drew /\ input.deck = <<>> /\ input.discardPile # <<>>) =>
    /\ gameSession.deck = Tail(input.discardPile)
    /\ Len(gameSession.deck) = Len(input.discardPile) - 1
    /\ gameSession.discardPile = <<>>
    /\ gameSession.hand = input.hand \o <<Head(input.discardPile)>>
    /\ drawnCard = Head(input.discardPile)

C13_Witness ==
  /\ Drew
  /\ input.deck = <<>>
  /\ input.discardPile = <<"heat-stroke", "zero">>
  /\ gameSession.deck = <<"zero">>
  /\ gameSession.hand = <<"insulin", "heat-stroke">>
  /\ drawnCard = "heat-stroke"

\* C14: drawCard on an empty deck and an empty discard pile returns no card
\* (null) and a session equal to the input session in every field.
C14_NothingToDraw ==
  (Drew /\ input.deck = <<>> /\ input.discardPile = <<>>) =>
    /\ drawnCard = NoCard
    /\ gameSession = input
    /\ State(gameSession) = inputState

C14_Witness ==
  /\ Drew
  /\ input.deck = <<>>
  /\ input.discardPile = <<>>
  /\ drawnCard = NoCard
  /\ gameSession.hand = <<>>

\* C15: drawCard on a non-empty deck removes the first card of the deck,
\* appends it to the hand and returns it; the rest of the deck keeps its
\* order and the discard pile is unchanged.
C15_DrawsFirstOfDeck ==
  (Drew /\ input.deck # <<>>) =>
    /\ drawnCard = Head(input.deck)
    /\ gameSession.deck = Tail(input.deck)
    /\ gameSession.hand = input.hand \o <<drawnCard>>
    /\ gameSession.discardPile = input.discardPile

C15_Witness ==
  /\ Drew
  /\ input.deck = <<"overdose", "acidosis-attack">>
  /\ drawnCard = "overdose"
  /\ gameSession.deck = <<"acidosis-attack">>
  /\ gameSession.hand = <<"insulin", "buffer", "rest", "overdose">>

StableCount(state) == Cardinality({s \in Systems : InNormalRange(state[s])})

\* C16: getScore returns max(0, 1000 - 10*turnCount - 50*criticalCount +
\* 100*stableCount), criticalCount being the number of biomarkers flagged
\* critical and stableCount the number of biomarkers whose value is within
\* its normal range (bounds included); every call on a session, the first
\* and the repeated one, returns that value.
C16_ScoreFormula ==
  op = "getScore" =>
    LET raw == 1000 - 10 * gameSession.turnCount
                 - 50 * CriticalCount(State(gameSession))
                 + 100 * StableCount(State(gameSession))
    IN  returnedScore = IF raw < 0 THEN 0 ELSE raw

C16_Witness ==
  /\ op = "getScore"
  /\ gameSession.turnCount = 10
  /\ CriticalCount(State(gameSession)) = 1
  /\ StableCount(State(gameSession)) = 2
  /\ returnedScore = 1050

PlayerActions ==
  {"handlePlayCard", "handlePlayCard_return", "handleDrawCard", "handleDrawCard_return",
   "handleEndTurn"}

\* C17: once the status of the session is VICTORY or DEFEAT, no player
\* action (play card, draw card, end turn) changes the session: biomarkers,
\* piles, turnCount, score and status stay as they are.
C17_NoMutationAfterEnd ==
  [][(op' \in PlayerActions /\ gameSession.status # "IN_PROGRESS") =>
       /\ gameSession' = gameSession
       /\ State(gameSession)' = State(gameSession)]_vars

\* C18: processTurn called on a session whose status is VICTORY or DEFEAT
\* returns a session with that same status.
C18_TerminalStatus ==
  (Returned /\ input.status \in {"VICTORY", "DEFEAT"}) =>
    gameSession.status = input.status

\* C19: no operation on a session (play card with processTurn, draw card
\* with drawCard, end of turn with its event) yields a smaller turnCount
\* than the session had, and drawing a card leaves it as it is.
C19_TurnCountMonotone ==
  [][op' \in PlayerActions =>
       /\ gameSession'.turnCount >= gameSession.turnCount
       /\ op' \in {"handleDrawCard", "handleDrawCard_return"} =>
            gameSession'.turnCount = gameSession.turnCount]_vars

C19_Witness ==
  /\ op = "handleEndTurn"
  /\ calls = 2
  /\ input.turnCount = 8
  /\ gameSession.turnCount = 9
  /\ gameSession.status = "VICTORY"

EffectsOn(c, s) == SelectSeq(Effects(c), LAMBDA e : e.targetSystem = s)

\* The effects of card c on system s are two, v and -v.
NetZero(c, s) ==
  /\ Len(EffectsOn(c, s)) = 2
  /\ EffectsOn(c, s)[2].value = FNeg(EffectsOn(c, s)[1].value)

C20_FractionWitness ==
  /\ Returned
  /\ card = "zeroPh"
  /\ inputState.ph.currentValue = Dec(740)
  /\ State(gameSession).ph.currentValue # Dec(740)
  /\ FLess(State(gameSession).ph.currentValue, Dec(740))

C21_GameOverAtMaxTurns ==
  (Returned /\ gameSession.turnCount = gameSession.maxTurns)
    => gameSession.status # "IN_PROGRESS"

(***************************************************************************)
(* C22                                                                     *)
(***************************************************************************)

\* C22: when processTurn fails on an effect that names no biomarker, none of
\* the card's effects has been applied: the state of the session passed in
\* has the values, flags and trends it had before the call.
C22_NoPartialFailure ==
  op = "processTurn_throw" => State(gameSession) = inputState

(***************************************************************************)
(* C23                                                                     *)
(***************************************************************************)

\* The state after the first n effects of the card last played.
PrefixState(n) == ForEachEffect(inputState, SubSeq(Effects(card), 1, n), <<>>, card).state

\* Two or more biomarkers were critical after some effect of the card last played.
DefeatAfterSomeEffect ==
  \E n \in 1..Len(Effects(card)) : CriticalCount(PrefixState(n)) >= 2

\* C23 (as stated): if two or more biomarkers are critical after some effect
\* of the played card, the status processTurn returns is DEFEAT, also when
\* a later effect of the card brings the number back below two.
C23_DefeatAfterAnyEffect ==
  (Returned /\ DefeatAfterSomeEffect) => gameSession.status = "DEFEAT"

\* C23 (amended): the termination rule is evaluated once, after the last
\* effect: when two or more biomarkers were critical after some effect of
\* the played card, the status returned is DEFEAT exactly when two or more
\* are still critical after the card's last effect.
C23_DefeatAfterLastEffect ==
  (Returned /\ DefeatAfterSomeEffect)
    => (gameSession.status = "DEFEAT" <=> CriticalCount(State(gameSession)) >= 2)

\* A card left two biomarkers critical midway and fewer than two at its end,
\* and the game goes on.
C23_Witness ==
  /\ Returned
  /\ DefeatAfterSomeEffect
  /\ CriticalCount(State(gameSession)) < 2
  /\ gameSession.status = "IN_PROGRESS"

(***************************************************************************)
(* C24                                                                     *)
(***************************************************************************)

\* C24: in every state of a game reached from a new game by playing cards,
\* drawing cards and ending turns, each biomarker's isCritical flag is true
\* exactly when its currentValue is strictly outside its criticalRange.
C24_FlagAgreesWithValue ==
  HasSession(gameSession) =>
    \A s \in Systems :
      State(gameSession)[s].isCritical <=> OutsideCriticalRange(State(gameSession)[s])

\* The event of an end of turn has taken a biomarker across the critical
\* bound: its flag has changed with its value.
C24_Witness ==
  /\ op = "handleEndTurn"
  /\ \E s \in Systems :
       /\ State(gameSession)[s].currentValue # inputState[s].currentValue
       /\ State(gameSession)[s].isCritical # inputState[s].isCritical
       /\ State(gameSession)[s].isCritical = OutsideCriticalRange(State(gameSession)[s])

(***************************************************************************)
(* C25                                                                     *)
(***************************************************************************)

\* C25: after a played card or an end of turn has changed a biomarker's
\* currentValue, its trend is calculateTrend of the value before and the
\* value after (no card and no event of the application changes one
\* biomarker twice, so that change is the last delta).
C25_TrendFromLastChange ==
  op \in {"handlePlayCard", "handleEndTurn"} =>
    \A s \in Systems :
      State(gameSession)[s].currentValue # inputState[s].currentValue =>
        State(gameSession)[s].trend =
          calculateTrend(inputState[s].currentValue, State(gameSession)[s].currentValue)

(***************************************************************************)
(* C26                                                                     *)
(***************************************************************************)

\* C26: after every operation that advances turnCount (a played card, an
\* end of turn), the score stored in the session is getScore of that
\* session.
C26_ScoreRecomputed ==
  op \in {"handlePlayCard", "handleEndTurn"} =>
    gameSession.score = getScore(gameSession, objs)

(***************************************************************************)
(* C27                                                                     *)
(***************************************************************************)

\* C27: in every state of the running game, a session with two or more
\* critical biomarkers has status DEFEAT.
C27_TwoCriticalIsDefeat ==
  (currentScreen = "game" /\ CriticalCount(State(gameSession)) >= 2)
    => gameSession.status = "DEFEAT"

(***************************************************************************)
(* C28                                                                     *)
(***************************************************************************)

\* The active session is the one createNewGameSession has just set: the
\* game started from the menu, from the tutorial or from the results
\* screen, or the game a run starts with when no action has been taken in
\* it.
NewGameSet ==
  \/ op \in {"handleStartGame", "onComplete", "handleReplay", "handleNextLevel"}
  \/ op = "init" /\ HasSession(gameSession)
       /\ gameSession.turnCount = 0 /\ gameSession.discardPile = <<>>
       /\ Len(gameSession.hand) + Len(gameSession.deck) = Len(ActionDeck)

\* C28: the session active after createNewGameSession has the first
\* min(5, deck size) cards of the starting deck in its hand, in deck order,
\* and the rest in its deck; status IN_PROGRESS, turnCount 0, no discards.
C28_NewGameDealsHand ==
  NewGameSet =>
    \E n \in {IF Len(ActionDeck) < 5 THEN Len(ActionDeck) ELSE 5} :
      /\ gameSession.hand = SubSeq(ActionDeck, 1, n)
      /\ gameSession.deck = SubSeq(ActionDeck, n + 1, Len(ActionDeck))
      /\ gameSession.status = "IN_PROGRESS"
      /\ gameSession.turnCount = 0
      /\ gameSession.discardPile = <<>>

(***************************************************************************)
(* C29                                                                     *)
(***************************************************************************)

\* The columns of a row the claim is about.
Content(row) ==
  [game_data |-> row.game_data, status |-> row.status,
   score |-> row.score, turn_count |-> row.turn_count]

\* C29: a request carrying a user id other than that of the user who
\* created a row never changes the row's game_data, status, score or
\* turn_count and never deletes the row: the row stays through every step
\* in which the statement that ran was not its owner's.
C29_OnlyOwnerChanges ==
  [][\A row \in db :
       (\A i \in DOMAIN inFlight :
          (inFlight[i].pc = "run" /\ i \in DOMAIN inFlight' /\ inFlight'[i].pc = "answer")
            => inFlight[i].request.userId # row.encrypted_yw_id) =>
         \E kept \in db' :
           /\ kept.session_id = row.session_id
           /\ kept.encrypted_yw_id = row.encrypted_yw_id
           /\ Content(kept) = Content(row)]_vars

(***************************************************************************)
(* C30                                                                     *)
(***************************************************************************)

\* C30: drawCard leaves the session passed in as it was, and the session it
\* returns has the id, playerId, difficulty, state (values, flags, trends),
\* status, turnCount and score of the input; processTurn changes none of
\* id, playerId, difficulty, deck and score.
C30_Frame ==
  /\ op = "drawCard" =>
       /\ arg = input
       /\ gameSession.currentState = input.currentState
       /\ State(gameSession) = inputState
       /\ \A f \in {"id", "playerId", "difficulty", "status", "turnCount", "score"} :
            gameSession[f] = input[f]
  /\ Returned =>
       \A f \in {"id", "playerId", "difficulty", "deck", "score"} :
         gameSession[f] = input[f]

\* A card was drawn, after a reshuffle, from a session that processTurn
\* had returned.
C30_Witness ==
  /\ op = "drawCard"
  /\ calls = 2
  /\ drawnCard # NoCard
  /\ gameSession # input
  /\ input.turnCount = 7
  /\ input.deck = <<>>
  /\ gameSession.difficulty = "medium"
  /\ gameSession.playerId = "player-1"
  /\ gameSession.id = DateNow(0)

====
